---- MODULE Spec2Model ----
(***************************************************************************)
(* Model of src/main.go (eqemupatcher-web): the zip-chunk planner, the     *)
(* chunk registry (chunkStore), the archive materializer (GET handler),    *)
(* the deferred reclaimer (delayedDeleteFile), the expiry janitor and the  *)
(* per-IP rate limiter.                                                    *)
(*                                                                         *)
(* Five specifications share the module:                                   *)
(*   SpecPlan  the planning of one init request as a pure computation      *)
(*   Spec      the registry, GET handlers, reclaimer timers and janitor,   *)
(*             between two pulls of the repository                         *)
(*   SpecLive  Spec with fewer requests and a fair scheduler, for the      *)
(*             properties that say something eventually happens            *)
(*   SpecPull  the server of SpecLive, without the fairness, with the      *)
(*             webhook's git pull deleting files under it                  *)
(*   SpecRate  the rate limiter in front of the init and GET routes        *)
(***************************************************************************)
EXTENDS Integers, Sequences, FiniteSets, TLC

VARIABLES
    \* ---- SpecPlan: one init request, planning only
    payload,        \* the bound request body: [Files, MaxChunkSize]
    planPc,         \* "request" | "done"
    planMaxSize,    \* the maxSize argument handed to chunkBySize
    planChunks,     \* the chunks chunkBySize returned
    \* ---- Spec: the server's registry, handlers, timers and janitor
    now,            \* what time.Now() returns, in clock quanta
    chunkStore,     \* chunkID -> file list (main.go:30)
    chunkStoreMu,   \* holder of the registry mutex, or "free" (main.go:31)
    inits,          \* the POST /zip-chunks/init workers
    gets,           \* the GET /zip-chunks/:chunkID workers
    tmpDir,         \* /tmp/patcher: file name -> [mtime, content]
    timers,         \* pending time.AfterFunc timers of delayedDeleteFile
    janitor,        \* the expiry goroutine: [pc, now, nextTick]
    failed,         \* TRUE once a removal has surfaced an error
    cloneDir,       \* the synced repository as os.Stat and os.Open see it (main.go:26)
    \* ---- SpecRate: the limiter in front of POST /zip-chunks/init
    rateNow,        \* time.Now() as the limiter reads it, in token intervals
    visitors,       \* ip -> limiter state [tokens, last] (main.go:35)
    admitted,       \* ip -> time -> requests passed on to the init handler
    lastReply       \* the latest request's [ip, route, status]

planVars == <<payload, planPc, planMaxSize, planChunks>>

srvVars == <<now, chunkStore, chunkStoreMu, inits, gets, tmpDir, timers, janitor, failed, cloneDir>>

rateVars == <<rateNow, visitors, admitted, lastReply>>

vars == <<planVars, srvVars, rateVars>>

----------------------------------------------------------------------------
(* Bounds of the model *)

MaxFiles == 4       \* longest request file list drawn in SpecPlan
MaxTime == 12       \* the clock stops advancing here
MaxInits == 2       \* init requests served
MaxGets == 2        \* GET requests served
MaxRequests == 3    \* init and GET requests served, together
MaxLiveRequests == 2 \* init and GET requests served in SpecLive and SpecPull
MaxRateTime == 1    \* the limiter's clock stops advancing here

----------------------------------------------------------------------------
(* The synced root directory (cloneDir) as os.Stat sees it *)

DefaultMaxChunkSize == 31457280     \* 30 * 1024 * 1024, main.go:115

Paths == {"a.txt", "b.txt", "c.txt", "z.txt", "half.bin", "huge.bin", "sub", "gone.txt"}

\* What os.Stat(filepath.Join(cloneDir, p)) answers: "file" with a size, "dir", or an error.
Repo0 ==
    [p \in Paths |->
        CASE p = "a.txt"    -> [kind |-> "file", size |-> 10]
          [] p = "b.txt"    -> [kind |-> "file", size |-> 25]
          [] p = "c.txt"    -> [kind |-> "file", size |-> 2]
          [] p = "z.txt"    -> [kind |-> "file", size |-> 0]
          [] p = "half.bin" -> [kind |-> "file", size |-> 20000000]
          [] p = "huge.bin" -> [kind |-> "file", size |-> 31457281]
          [] p = "sub"      -> [kind |-> "dir",  size |-> 0]
          [] OTHER          -> [kind |-> "missing", size |-> 0]]

\* The paths an upstream commit deletes from the repository.
PulledAway == {"c.txt"}

\* The max_chunk_size values a request may carry (0 is the JSON default when absent).
Budgets == {-7, 0, 1, 30, 20000010}

----------------------------------------------------------------------------
(* Planning: the stat filter of the init handler and chunkBySize *)

\* main.go:114-116
EffectiveMaxChunkSize(m) == IF m <= 0 THEN DefaultMaxChunkSize ELSE m

\* main.go:123-133: keep, in order, the paths that stat as a non-directory.
RECURSIVE StatFilter(_, _)
StatFilter(files, repo) ==
    IF files = <<>> THEN <<>>
    ELSE LET file == Head(files)
             info == repo[file]
             rest == StatFilter(Tail(files), repo)
         IN  IF info.kind = "missing" \/ info.kind = "dir"
             THEN rest
             ELSE <<[Path |-> file, Size |-> info.size]>> \o rest

\* A slip that closes a chunk on the size test alone (no len(current) > 0).
chunkLoopNoLenTest(files, maxSize, chunks, current, currentSize) ==
    LET RECURSIVE go(_, _, _, _)
        go(fs, cs, cur, sz) ==
            IF fs = <<>>
            THEN IF Len(cur) > 0 THEN Append(cs, cur) ELSE cs
            ELSE LET f == Head(fs)
                     close == sz + f.Size > maxSize
                 IN  go(Tail(fs),
                        IF close THEN Append(cs, cur) ELSE cs,
                        Append(IF close THEN <<>> ELSE cur, f),
                        (IF close THEN 0 ELSE sz) + f.Size)
    IN go(files, chunks, current, currentSize)

\* A slip that closes a chunk when the next file would fill it exactly.
chunkLoopClosesWhenFull(files, maxSize, chunks, current, currentSize) ==
    LET RECURSIVE go(_, _, _, _)
        go(fs, cs, cur, sz) ==
            IF fs = <<>>
            THEN IF Len(cur) > 0 THEN Append(cs, cur) ELSE cs
            ELSE LET f == Head(fs)
                     close == sz + f.Size >= maxSize /\ Len(cur) > 0
                 IN  go(Tail(fs),
                        IF close THEN Append(cs, cur) ELSE cs,
                        Append(IF close THEN <<>> ELSE cur, f),
                        (IF close THEN 0 ELSE sz) + f.Size)
    IN go(files, chunks, current, currentSize)

\* main.go:352-360, one iteration of the loop per call.
RECURSIVE chunkLoop(_, _, _, _, _)
chunkLoop(files, maxSize, chunks, current, currentSize) ==
    IF files = <<>>
    THEN \* main.go:361-364
         IF Len(current) > 0 THEN Append(chunks, current) ELSE chunks
    ELSE LET f == Head(files)
             close == currentSize + f.Size > maxSize /\ Len(current) > 0
             chunks1 == IF close THEN Append(chunks, current) ELSE chunks
             current1 == IF close THEN <<>> ELSE current
             size1 == IF close THEN 0 ELSE currentSize
         IN  chunkLoop(Tail(files), maxSize, chunks1,
                       Append(current1, f), size1 + f.Size)

\* A slip that tests the budget against the file alone, not the running total.
chunkBySizeFileOnly(files, maxSize) ==
    LET RECURSIVE go(_, _, _)
        go(fs, cs, cur) ==
            IF fs = <<>>
            THEN IF Len(cur) > 0 THEN Append(cs, cur) ELSE cs
            ELSE LET f == Head(fs)
                     close == f.Size > maxSize /\ Len(cur) > 0
                 IN  go(Tail(fs),
                        IF close THEN Append(cs, cur) ELSE cs,
                        Append(IF close THEN <<>> ELSE cur, f))
    IN go(files, <<>>, <<>>)

\* main.go:335-365
chunkBySize(files, maxSize) == chunkLoop(files, maxSize, <<>>, <<>>, 0)

----------------------------------------------------------------------------
(* Time.  The clock is discrete: `now` is the value time.Now() returns, and  *)
(* two reads in the same quantum return the same value.  The durations of    *)
(* main.go are scaled to quanta of a third of a minute, keeping their ratios *)
(* (maxAge : ticker period : reclaim delay = 1 : 1 : 3).                     *)

maxAge == 3         \* 1 * time.Minute, main.go:249
tickPeriod == 3     \* time.NewTicker(1 * time.Minute), main.go:244
delay == 9          \* 3 * time.Minute, main.go:232

----------------------------------------------------------------------------
(* Strings are sequences of one-character strings *)

DigitChars == <<"0", "1", "2", "3", "4", "5", "6", "7", "8", "9">>

RECURSIVE FormatNat(_)
FormatNat(n) ==
    IF n < 10 THEN <<DigitChars[n + 1]>>
    ELSE FormatNat(n \div 10) \o <<DigitChars[(n % 10) + 1]>>

\* strconv.FormatInt(n, 10) and strconv.Itoa(n)
FormatInt(n) == IF n < 0 THEN <<"-">> \o FormatNat(-n) ELSE FormatNat(n)

\* strings.Index(s, c) for a one-character c: 0-based position, or -1.
Index(s, c) ==
    IF \E i \in 1..Len(s) : s[i] = c
    THEN (CHOOSE i \in 1..Len(s) : s[i] = c /\ \A j \in 1..(i - 1) : s[j] # c) - 1
    ELSE -1

DigitValue(ch) == (CHOOSE d \in 1..10 : DigitChars[d] = ch) - 1

IsDigit(ch) == \E d \in 1..10 : DigitChars[d] = ch

RECURSIVE ParseNat(_, _)
ParseNat(s, acc) ==
    IF s = <<>> THEN acc ELSE ParseNat(Tail(s), acc * 10 + DigitValue(Head(s)))

\* strconv.ParseInt(s, 10, 64): [ok, val]; an empty string, a bare sign or a
\* non-digit is an error.
ParseInt(s) ==
    LET neg == s # <<>> /\ Head(s) = "-"
        signed == s # <<>> /\ (Head(s) = "-" \/ Head(s) = "+")
        body == IF signed THEN Tail(s) ELSE s
    IN  IF body = <<>> \/ \E i \in 1..Len(body) : ~IsDigit(body[i])
        THEN [ok |-> FALSE, val |-> 0]
        ELSE [ok |-> TRUE, val |-> IF neg THEN -ParseNat(body, 0) ELSE ParseNat(body, 0)]

HasPrefix(s, p) == Len(s) >= Len(p) /\ SubSeq(s, 1, Len(p)) = p

HasSuffix(s, p) == Len(s) >= Len(p) /\ SubSeq(s, Len(s) - Len(p) + 1, Len(s)) = p

ZipExt == <<".", "z", "i", "p">>

\* A key without the separator.
ChunkKeyNoDash(chunkID, i) == chunkID \o FormatInt(i)

\* main.go:146: chunkID + "-" + strconv.Itoa(i)
ChunkKey(chunkID, i) == chunkID \o <<"-">> \o FormatInt(i)

\* main.go:200: os.CreateTemp(tmpDir, chunkID+"-*.zip") replaces the * by a
\* random decimal string that makes the name new; `rnd` is that number.
TempName(chunkID, rnd) == chunkID \o <<"-">> \o FormatInt(rnd) \o ZipExt

\* main.go:266: filepath.Glob(tempZipDir/chunkKey+"-*.zip") over the names of
\* the scratch directory (tempZipDir and os.TempDir()/patcher are both
\* /tmp/patcher in the container).
GlobMatch(chunkKey, name) ==
    /\ HasPrefix(name, chunkKey \o <<"-">>)
    /\ HasSuffix(name, ZipExt)
    /\ Len(name) >= Len(chunkKey) + 1 + Len(ZipExt)

\* main.go:279: filepath.Ext(path) == ".zip"
IsZip(name) == HasSuffix(name, ZipExt)

\* main.go:254-258: the timestamp prefix of a key, parsed.  (Go would panic
\* on a key without "-"; no such key is ever stored.)
KeyTimestamp(chunkKey) ==
    LET idx == Index(chunkKey, "-")
    IN  ParseInt(IF idx < 0 THEN <<>> ELSE SubSeq(chunkKey, 1, idx))

\* An age test that lets an entry live one quantum longer.
ExpiredLate(t, ts) == t - ts > maxAge + 1

\* The subtraction the wrong way round.
ExpiredSignSlip(t, ts) == ts - t > maxAge

\* main.go:261 and main.go:280: now.Sub(t) > maxAge
Expired(t, ts) == t - ts > maxAge

----------------------------------------------------------------------------
(* The registry map and the scratch directory *)

EmptyMap == [k \in {} |-> <<>>]

Restrict(f, S) == [k \in S |-> f[k]]

\* A delete that treats a missing key as an error.
mapDeleteStrict(m, key) ==
    [m |-> Restrict(m, DOMAIN m \ {key}), ok |-> key \in DOMAIN m]

\* The delete builtin (main.go:236, main.go:263): a no-op on a missing key.
mapDelete(m, key) == [m |-> Restrict(m, DOMAIN m \ {key}), ok |-> TRUE]

\* A remove that deletes nothing.
osRemoveNoop(dir, name) == [dir |-> dir, err |-> name \notin DOMAIN dir]

\* os.Remove (main.go:268, 282, 389): the file is gone afterwards; removing a
\* missing file returns an error.
osRemove(dir, name) ==
    [dir |-> Restrict(dir, DOMAIN dir \ {name}), err |-> name \notin DOMAIN dir]

\* main.go:146 for every chunk of one call: later chunks overwrite equal keys.
RECURSIVE storeChunks(_, _, _, _)
storeChunks(m, chunkID, chunks, i) ==
    IF i >= Len(chunks) THEN m
    ELSE LET key == ChunkKey(chunkID, i)
             names == [k \in 1..Len(chunks[i + 1]) |-> chunks[i + 1][k].Path]
         IN  storeChunks([k \in DOMAIN m \cup {key} |-> IF k = key THEN names ELSE m[k]],
                         chunkID, chunks, i + 1)

\* main.go:152-154 and 171: the handles of the response, in chunk order.
Handles(chunkID, chunks) == [i \in 1..Len(chunks) |-> ChunkKey(chunkID, i - 1)]

\* main.go:164-175: the "chunks" array of the JSON response.
RECURSIVE chunkSize(_)
chunkSize(chunk) == IF chunk = <<>> THEN 0 ELSE Head(chunk).Size + chunkSize(Tail(chunk))

Result(chunkID, chunks) ==
    [i \in 1..Len(chunks) |->
        [URL |-> ChunkKey(chunkID, i - 1),
         FileCount |-> Len(chunks[i]),
         TotalSizeUncompressed |-> chunkSize(chunks[i])]]

----------------------------------------------------------------------------
(* The rate limiter (main.go:39-71) over golang.org/x/time/rate.  Its clock  *)
(* counts token intervals: rate.Every(time.Minute/10) adds one token per     *)
(* interval, so a minute is `window` intervals.                              *)

burst == 10         \* rate.NewLimiter(..., 10), main.go:45
window == 10        \* time.Minute over time.Minute/10, main.go:45

IPs == {"10.0.0.1", "10.0.0.2"}

\* The zero time.Time a new limiter's `last` holds: at least a full bucket ago.
ZeroTime == 0 - burst

\* rate.NewLimiter (main.go:45): no tokens yet, last refill at the zero time.
NewLimiter == [tokens |-> 0, last |-> ZeroTime]

Min(a, b) == IF a <= b THEN a ELSE b

\* Limiter.advance: the tokens at time t, one per interval since last, capped.
advance(lim, t) ==
    LET last == IF t < lim.last THEN t ELSE lim.last
    IN  Min(burst, lim.tokens + (t - last))

\* An Allow that charges the refused request too.
AllowChargesRefusal(lim, t) ==
    LET tokens == advance(lim, t) - 1
    IN  [ok |-> tokens >= 0, lim |-> [tokens |-> tokens, last |-> t]]

\* Limiter.Allow (main.go:64): take one token if one is there; a refused
\* request leaves the limiter as it was.
Allow(lim, t) ==
    LET tokens == advance(lim, t) - 1
    IN  IF tokens < 0
        THEN [ok |-> FALSE, lim |-> lim]
        ELSE [ok |-> TRUE, lim |-> [tokens |-> tokens, last |-> t]]

\* main.go:39-49: the ip's limiter, made on first sight.
getVisitor(vs, ip) == IF ip \in DOMAIN vs THEN vs[ip] ELSE NewLimiter

RateIdle ==
    /\ rateNow = 0
    /\ visitors = EmptyMap
    /\ admitted = [ip \in IPs |-> [t \in 0..MaxRateTime |-> 0]]
    /\ lastReply = [ip |-> "", route |-> "", status |-> 0]

----------------------------------------------------------------------------
(* The janitor's two sweeps and the reclaimer's callback, as functions of    *)
(* the registry and the scratch directory                                    *)

\* os.Remove for each of the names (main.go:267-269).
removeAll(dir, names) ==
    Restrict(dir, {x \in DOMAIN dir : \A n \in names : x \in DOMAIN osRemove(dir, n).dir})

\* delete for each of the keys (main.go:263, once per expired key); r is
\* [m, ok] and ok stays TRUE as long as no delete fails.
deleteAll(r, keys) ==
    [m |-> Restrict(r.m, {x \in DOMAIN r.m : \A k \in keys : x \in DOMAIN mapDelete(r.m, k).m}),
     ok |-> r.ok /\ \A k \in keys : mapDelete(r.m, k).ok]

\* main.go:252-271 with the lock held: every key whose timestamp parses and
\* is older than maxAge is deleted, with the scratch files its pattern matches.
registrySweep(store, dir, t) ==
    LET expired == {k \in DOMAIN store :
                        KeyTimestamp(k).ok /\ Expired(t, KeyTimestamp(k).val)}
        matches == {n \in DOMAIN dir : \E k \in expired : GlobMatch(k, n)}
        d == deleteAll([m |-> store, ok |-> TRUE], expired)
    IN  [store |-> d.m, dir |-> removeAll(dir, matches), ok |-> d.ok]

\* main.go:266-269: the filesystem calls of one registry sweep, all of them
\* between Lock (main.go:251) and Unlock (main.go:272): one filepath.Glob per
\* expired key and one os.Remove per match.
sweepIO(store, dir, t) ==
    LET expired == {k \in DOMAIN store :
                        KeyTimestamp(k).ok /\ Expired(t, KeyTimestamp(k).val)}
        matches == {n \in DOMAIN dir : \E k \in expired : GlobMatch(k, n)}
    IN  Cardinality(expired) + Cardinality(matches)

\* A walk that removes nothing.
walkSweepNoop(dir, t) == dir

\* main.go:274-286: every .zip of the scratch directory older than maxAge.
walkSweep(dir, t) ==
    removeAll(dir, {n \in DOMAIN dir : IsZip(n) /\ Expired(t, dir[n].mtime)})

\* main.go:388-393: the timer's callback, whole.
reclaim(store, dir, path, chunkID) ==
    LET d == mapDelete(store, chunkID)
    IN  [store |-> d.m, dir |-> osRemove(dir, path).dir, ok |-> d.ok]

\* One janitor tick at time t, whole (main.go:247-289).
janitorTick(store, dir, t) ==
    LET r == registrySweep(store, dir, t)
    IN  [store |-> r.store, dir |-> walkSweep(r.dir, t), ok |-> r.ok]

----------------------------------------------------------------------------
(* The server: Spec *)

InitWorkers == 1..MaxInits
GetWorkers == 1..MaxGets

\* The request bodies init workers draw from (budget 30: a.txt and b.txt do
\* not share a chunk, a.txt and c.txt do).
InitPayloads ==
    { [Files |-> <<"a.txt", "b.txt">>, MaxChunkSize |-> 30],
      [Files |-> <<"a.txt", "sub", "c.txt">>, MaxChunkSize |-> 30],
      [Files |-> <<"gone.txt">>, MaxChunkSize |-> 0] }

\* A chunkID no init call ever returned.
BogusID == <<"n", "o", "n", "e">>

NoBytes == [entries |-> <<>>, closed |-> FALSE]

IdleInit ==
    [pc |-> "idle", chunks |-> <<>>, chunkID |-> <<>>, handles |-> <<>>, regAt |-> 0,
     result |-> <<>>]

IdleGet ==
    [pc |-> "idle", chunkID |-> <<>>, files |-> <<>>, tmpPath |-> <<>>,
     archive |-> NoBytes, status |-> 0, body |-> NoBytes, disconnected |-> FALSE,
     scheduled |-> 0, doneAt |-> 0,
     cleanups |-> 0, fileWasGone |-> FALSE, entryWasGone |-> FALSE]

SrvIdle ==
    /\ now = 0
    /\ chunkStore = EmptyMap
    /\ chunkStoreMu = "free"
    /\ inits = [i \in InitWorkers |-> IdleInit]
    /\ gets = [g \in GetWorkers |-> IdleGet]
    /\ tmpDir = EmptyMap
    /\ timers = {}
    /\ janitor = [pc |-> "idle", now |-> 0, nextTick |-> tickPeriod]
    /\ failed = FALSE
    /\ cloneDir = Repo0

PlanIdle ==
    /\ payload = [Files |-> <<>>, MaxChunkSize |-> 0]
    /\ planPc = "idle"
    /\ planMaxSize = 0
    /\ planChunks = <<>>

Init == PlanIdle /\ SrvIdle /\ RateIdle

\* The requests that have arrived so far.
Arrived ==
    Cardinality({i \in InitWorkers : inits[i].pc # "idle"})
        + Cardinality({g \in GetWorkers : gets[g].pc # "idle"})

\* The handles init calls have returned so far.
Issued == UNION {{inits[i].handles[k] : k \in 1..Len(inits[i].handles)} : i \in InitWorkers}

\* main.go:114-139: plan the request and read the clock for the chunkID.
InitStamp(i, p) ==
    /\ inits[i].pc = "idle"
    /\ IF i = 1 THEN TRUE ELSE inits[i - 1].pc # "idle"
    /\ Arrived < MaxRequests
    /\ inits' = [inits EXCEPT ![i] =
            [pc |-> "stamped",
             chunks |-> chunkBySize(StatFilter(p.Files, cloneDir),
                                    EffectiveMaxChunkSize(p.MaxChunkSize)),
             chunkID |-> FormatInt(now),
             handles |-> <<>>,
             regAt |-> 0,
             result |-> <<>>]]
    /\ UNCHANGED <<planVars, rateVars, cloneDir, now, chunkStore, chunkStoreMu, gets, tmpDir, timers,
                   janitor, failed>>

\* A register that does not take the lock.
InitRegisterNoLock(i) ==
    /\ inits[i].pc = "stamped"
    /\ chunkStore' = storeChunks(chunkStore, inits[i].chunkID, inits[i].chunks, 0)
    /\ inits' = [inits EXCEPT ![i].pc = "done",
                              ![i].handles = Handles(inits[i].chunkID, inits[i].chunks),
                              ![i].regAt = now,
                              ![i].result = Result(inits[i].chunkID, inits[i].chunks)]
    /\ UNCHANGED <<planVars, rateVars, cloneDir, now, chunkStoreMu, gets, tmpDir, timers,
                   janitor, failed>>

\* main.go:140-179: store the chunks under the lock and answer their handles.
InitRegister(i) ==
    /\ inits[i].pc = "stamped"
    /\ chunkStoreMu = "free"
    /\ chunkStore' = storeChunks(chunkStore, inits[i].chunkID, inits[i].chunks, 0)
    /\ inits' = [inits EXCEPT ![i].pc = "done",
                              ![i].handles = Handles(inits[i].chunkID, inits[i].chunks),
                              ![i].regAt = now,
                              ![i].result = Result(inits[i].chunkID, inits[i].chunks)]
    /\ UNCHANGED <<planVars, rateVars, cloneDir, now, chunkStoreMu, gets, tmpDir, timers, janitor, failed>>

\* A lookup that drops the ok flag: an absent chunkID resolves to no files.
GetResolveIgnoresOk(g, id) ==
    /\ gets[g].pc = "idle"
    /\ IF g = 1 THEN TRUE ELSE gets[g - 1].pc # "idle"
    /\ Arrived < MaxRequests
    /\ chunkStoreMu = "free"
    /\ gets' = [gets EXCEPT ![g].pc = "resolved", ![g].chunkID = id,
                            ![g].files = IF id \in DOMAIN chunkStore
                                         THEN chunkStore[id] ELSE <<>>]
    /\ UNCHANGED <<planVars, rateVars, cloneDir, now, chunkStore, chunkStoreMu, inits, tmpDir, timers,
                   janitor, failed>>

\* main.go:184-191: look the chunkID up under the lock; 404 when absent.
GetResolve(g, id) ==
    /\ gets[g].pc = "idle"
    /\ IF g = 1 THEN TRUE ELSE gets[g - 1].pc # "idle"
    /\ Arrived < MaxRequests
    /\ chunkStoreMu = "free"
    /\ IF id \in DOMAIN chunkStore
       THEN gets' = [gets EXCEPT ![g].pc = "resolved", ![g].chunkID = id,
                                 ![g].files = chunkStore[id]]
       ELSE gets' = [gets EXCEPT ![g].pc = "done", ![g].chunkID = id,
                                 ![g].status = 404]
    /\ UNCHANGED <<planVars, rateVars, cloneDir, now, chunkStore, chunkStoreMu, inits, tmpDir, timers,
                   janitor, failed>>

\* main.go:195-203: MkdirAll or CreateTemp fails; 500, nothing created.
GetCreateTempFails(g) ==
    /\ gets[g].pc = "resolved"
    /\ gets' = [gets EXCEPT ![g].pc = "done", ![g].status = 500]
    /\ UNCHANGED <<planVars, rateVars, cloneDir, now, chunkStore, chunkStoreMu, inits, tmpDir, timers,
                   janitor, failed>>

\* An open that never fails: a path that is gone still gets its entry.
CanOpenAlways(f) == TRUE

\* os.Open of a registered path under cloneDir (main.go:209).
CanOpen(f) == cloneDir[f].kind # "missing"

\* main.go:194-224: create the scratch file and write the archive: one entry
\* per path that opens, in order; then close the zip writer.
GetBuild(g) ==
    /\ gets[g].pc = "resolved"
    /\ LET name == TempName(gets[g].chunkID, g)
           zip == [entries |-> SelectSeq(gets[g].files, CanOpen), closed |-> TRUE]
       IN  /\ tmpDir' = [n \in DOMAIN tmpDir \cup {name} |->
                            IF n = name THEN [mtime |-> now, content |-> zip]
                            ELSE tmpDir[n]]
           /\ gets' = [gets EXCEPT ![g].pc = "built", ![g].tmpPath = name,
                                   ![g].archive = zip]
    /\ UNCHANGED <<planVars, rateVars, cloneDir, now, chunkStore, chunkStoreMu, inits, timers, janitor,
                   failed>>

\* main.go:229 and 378-385: c.Stream writes the 200 header, then WriteTo
\* reopens the scratch file by path; when that fails it returns at once:
\* nothing is streamed and no timer is armed.
GetOpen(g) ==
    /\ gets[g].pc = "built"
    /\ IF gets[g].tmpPath \in DOMAIN tmpDir
       THEN gets' = [gets EXCEPT ![g].pc = "streaming", ![g].status = 200]
       ELSE gets' = [gets EXCEPT ![g].pc = "done", ![g].status = 200,
                                 ![g].body = NoBytes, ![g].doneAt = now]
    /\ UNCHANGED <<planVars, rateVars, cloneDir, now, chunkStore, chunkStoreMu, inits, tmpDir, timers,
                   janitor, failed>>

\* main.go:385-395: io.Copy ends, the file's bytes sent whole or cut short by
\* the client; the timer is armed either way.  (The open descriptor keeps the
\* bytes readable after an unlink.)
GetStreamEnd(g, disconnect) ==
    /\ gets[g].pc = "streaming"
    /\ gets' = [gets EXCEPT ![g].pc = "done",
                            ![g].body = IF disconnect
                                        THEN [gets[g].archive EXCEPT !.closed = FALSE]
                                        ELSE gets[g].archive,
                            ![g].disconnected = disconnect,
                            ![g].scheduled = gets[g].scheduled + 1,
                            ![g].doneAt = now]
    /\ timers' = timers \cup {[path |-> gets[g].tmpPath, chunkID |-> gets[g].chunkID,
                               at |-> now + delay, stage |-> "armed", g |-> g]}
    /\ UNCHANGED <<planVars, rateVars, cloneDir, now, chunkStore, chunkStoreMu, inits, tmpDir, janitor,
                   failed>>

\* main.go:389: the timer fires; the scratch file is removed, the error dropped.
TimerRemove(t) ==
    /\ t \in timers
    /\ t.stage = "armed"
    /\ t.at <= now
    /\ tmpDir' = osRemove(tmpDir, t.path).dir
    /\ timers' = (timers \ {t}) \cup {[t EXCEPT !.stage = "removed"]}
    /\ gets' = [gets EXCEPT ![t.g].fileWasGone = osRemove(tmpDir, t.path).err]
    /\ UNCHANGED <<planVars, rateVars, cloneDir, now, chunkStore, chunkStoreMu, inits, janitor, failed>>

\* main.go:390-392 and 233-238: onDelete deletes the entry under the lock.
TimerOnDelete(t) ==
    /\ t \in timers
    /\ t.stage = "removed"
    /\ chunkStoreMu = "free"
    /\ LET d == mapDelete(chunkStore, t.chunkID)
       IN  /\ chunkStore' = d.m
           /\ failed' = (failed \/ ~d.ok)
    /\ timers' = timers \ {t}
    /\ gets' = [gets EXCEPT ![t.g].cleanups = gets[t.g].cleanups + 1,
                            ![t.g].entryWasGone = t.chunkID \notin DOMAIN chunkStore]
    /\ UNCHANGED <<planVars, rateVars, cloneDir, now, chunkStoreMu, inits, tmpDir, janitor>>

\* main.go:247-251: a tick arrives; read the clock and take the lock.
JanitorTick ==
    /\ janitor.pc = "idle"
    /\ now >= janitor.nextTick
    /\ chunkStoreMu = "free"
    /\ chunkStoreMu' = "janitor"
    /\ janitor' = [pc |-> "sweep", now |-> now, nextTick |-> janitor.nextTick + tickPeriod]
    /\ UNCHANGED <<planVars, rateVars, cloneDir, now, chunkStore, inits, gets, tmpDir, timers, failed>>

\* main.go:252-272: the registry sweep, lock held throughout, then unlock.
JanitorRegistrySweep ==
    /\ janitor.pc = "sweep"
    /\ LET r == registrySweep(chunkStore, tmpDir, janitor.now)
       IN  /\ chunkStore' = r.store
           /\ tmpDir' = r.dir
           /\ failed' = (failed \/ ~r.ok)
    /\ chunkStoreMu' = "free"
    /\ janitor' = [janitor EXCEPT !.pc = "walk"]
    /\ UNCHANGED <<planVars, rateVars, cloneDir, now, inits, gets, timers>>

\* main.go:274-289: the walk of the scratch directory.
JanitorWalk ==
    /\ janitor.pc = "walk"
    /\ tmpDir' = walkSweep(tmpDir, janitor.now)
    /\ janitor' = [janitor EXCEPT !.pc = "idle"]
    /\ UNCHANGED <<planVars, rateVars, cloneDir, now, chunkStore, chunkStoreMu, inits, gets, timers, failed>>

\* main.go:95-98 and 320-325: the webhook's git pull brings in an upstream
\* commit that deletes the paths of PulledAway.
cloneOrPull ==
    /\ cloneDir = Repo0
    /\ cloneDir' = [p \in Paths |-> IF p \in PulledAway
                                    THEN [kind |-> "missing", size |-> 0]
                                    ELSE cloneDir[p]]
    /\ UNCHANGED <<planVars, rateVars, now, chunkStore, chunkStoreMu, inits, gets, tmpDir,
                   timers, janitor, failed>>

\* The clock moves on.  Code that does not wait on a client finishes within
\* the quantum it started in: a stamped init registers, a resolved GET builds
\* and opens, a due timer runs and a due tick is swept before the clock moves.
\* Only the stream to the client (pc "streaming") spans quanta.
Advance ==
    /\ now < MaxTime
    /\ janitor.pc = "idle"
    /\ now < janitor.nextTick
    /\ \A t \in timers : t.stage = "armed" /\ t.at > now
    /\ \A i \in InitWorkers : inits[i].pc # "stamped"
    /\ \A g \in GetWorkers : gets[g].pc \notin {"resolved", "built"}
    /\ now' = now + 1
    /\ UNCHANGED <<planVars, rateVars, cloneDir, chunkStore, chunkStoreMu, inits, gets, tmpDir, timers,
                   janitor, failed>>

Next ==
    \/ \E i \in InitWorkers, p \in InitPayloads : InitStamp(i, p)
    \/ \E i \in InitWorkers : InitRegister(i)
    \/ \E g \in GetWorkers, id \in Issued \cup {BogusID} : GetResolve(g, id)
    \/ \E g \in GetWorkers : GetCreateTempFails(g)
    \/ \E g \in GetWorkers : GetBuild(g)
    \/ \E g \in GetWorkers : GetOpen(g)
    \/ \E g \in GetWorkers, disconnect \in BOOLEAN : GetStreamEnd(g, disconnect)
    \/ \E t \in timers : TimerRemove(t)
    \/ \E t \in timers : TimerOnDelete(t)
    \/ JanitorTick
    \/ JanitorRegistrySweep
    \/ JanitorWalk
    \/ Advance

Spec == Init /\ [][Next]_vars

\* A request arrives.
Arrival ==
    \/ \E i \in InitWorkers, p \in InitPayloads : InitStamp(i, p)
    \/ \E g \in GetWorkers, id \in Issued \cup {BogusID} : GetResolve(g, id)

\* Steps that may or may not happen: the scratch file cannot be created, the
\* client's download ends.
Environment ==
    \/ \E g \in GetWorkers : GetCreateTempFails(g)
    \/ \E g \in GetWorkers, disconnect \in BOOLEAN : GetStreamEnd(g, disconnect)

\* The steps the server takes on its own: handler code that waits on nothing
\* but the lock, fired timers, the janitor's ticker and the clock.
Server ==
    \/ \E i \in InitWorkers : InitRegister(i)
    \/ \E g \in GetWorkers : GetBuild(g)
    \/ \E g \in GetWorkers : GetOpen(g)
    \/ \E t \in timers : TimerRemove(t)
    \/ \E t \in timers : TimerOnDelete(t)
    \/ JanitorTick
    \/ JanitorRegistrySweep
    \/ JanitorWalk
    \/ Advance

\* The server under a fair scheduler: goroutines that can run do run, timers
\* and the ticker fire, the clock moves.  Nothing is assumed of the clients.
NextLive ==
    \/ Arrived < MaxLiveRequests /\ Arrival
    \/ Environment
    \/ Server

SpecLive == Init /\ [][NextLive]_vars /\ WF_vars(Server)

\* The server with the webhook's pull changing the repository under it.
NextPull ==
    \/ NextLive
    \/ cloneOrPull

SpecPull == Init /\ [][NextPull]_vars

----------------------------------------------------------------------------
(* SpecRate: requests from a few identities against the limiter's clock *)

RateInit == PlanIdle /\ SrvIdle /\ RateIdle

\* The request body the clients of SpecRate send.
RatePayload == [Files |-> <<"a.txt", "b.txt">>, MaxChunkSize |-> 30]

\* The chunkIDs the clients of SpecRate ask for: the first handle of a call
\* made at time 0, and one no call ever returned.
RateIDs == {ChunkKey(FormatInt(0), 0), BogusID}

\* main.go:104-180 behind main.go:59-71: one POST /zip-chunks/init from ip.
\* The middleware asks the ip's limiter; refused, it answers 429 and returns;
\* allowed, it calls the init handler, which plans the request, registers the
\* chunks under the clock's reading and answers 200.
rateLimitMiddleware(ip) ==
    LET limiter == getVisitor(visitors, ip)
        r == Allow(limiter, rateNow)
        chunks == chunkBySize(StatFilter(RatePayload.Files, cloneDir),
                              EffectiveMaxChunkSize(RatePayload.MaxChunkSize))
    IN  /\ visitors' = [k \in DOMAIN visitors \cup {ip} |->
                            IF k = ip THEN r.lim ELSE visitors[k]]
        /\ IF r.ok
           THEN /\ admitted' = [admitted EXCEPT ![ip][rateNow] = @ + 1]
                /\ chunkStore' = storeChunks(chunkStore, FormatInt(rateNow), chunks, 0)
                /\ lastReply' = [ip |-> ip, route |-> "init", status |-> 200]
           ELSE /\ admitted' = admitted
                /\ chunkStore' = chunkStore
                /\ lastReply' = [ip |-> ip, route |-> "init", status |-> 429]
        /\ UNCHANGED <<planVars, rateNow, now, chunkStoreMu, inits, gets, tmpDir, timers,
                       janitor, failed, cloneDir>>

\* main.go:183-191: one GET /zip-chunks/:chunkID from ip.  The route has no
\* middleware; the handler looks the chunkID up and answers 404 or goes on to
\* build and stream (the subject of Spec), answering 200.
getChunk(ip, id) ==
    /\ lastReply' = [ip |-> ip, route |-> "get",
                     status |-> IF id \in DOMAIN chunkStore THEN 200 ELSE 404]
    /\ UNCHANGED <<planVars, srvVars, rateNow, visitors, admitted>>

RateAdvance ==
    /\ rateNow < MaxRateTime
    /\ rateNow' = rateNow + 1
    /\ UNCHANGED <<planVars, srvVars, visitors, admitted, lastReply>>

RateNext ==
    \/ \E ip \in IPs : rateLimitMiddleware(ip)
    \/ \E ip \in IPs, id \in RateIDs : getChunk(ip, id)
    \/ RateAdvance

SpecRate == RateInit /\ [][RateNext]_vars

RECURSIVE SumOver(_, _)
SumOver(f, S) ==
    IF S = {} THEN 0
    ELSE LET x == CHOOSE y \in S : TRUE IN f[x] + SumOver(f, S \ {x})

\* C9: for each identity, no 1-minute window holds more than 10 admitted
\* planning requests (the 11th inside the window is rejected).
C9_TenPerWindow ==
    \A ip \in IPs : \A w \in 0..MaxRateTime :
        SumOver(admitted[ip], {t \in 0..MaxRateTime : w <= t /\ t < w + window}) <= 10

----------------------------------------------------------------------------
(* SpecPlan: every bounded request body, planned once *)

RECURSIVE SeqsUpTo(_, _)
SeqsUpTo(S, n) ==
    IF n = 0 THEN {<<>>}
    ELSE LET shorter == SeqsUpTo(S, n - 1)
         IN  shorter \cup {Append(s, x) : s \in {t \in shorter : Len(t) = n - 1}, x \in S}

PlanInit ==
    /\ payload \in [Files : SeqsUpTo(Paths, MaxFiles), MaxChunkSize : Budgets]
    /\ planPc = "request"
    /\ planMaxSize = 0
    /\ planChunks = <<>>
    /\ SrvIdle
    /\ RateIdle

\* main.go:114-136: default the budget, stat-filter the list, chunk it.
PlanRequest ==
    /\ planPc = "request"
    /\ LET maxSize == EffectiveMaxChunkSize(payload.MaxChunkSize)
       IN  /\ planMaxSize' = maxSize
           /\ planChunks' = chunkBySize(StatFilter(payload.Files, Repo0), maxSize)
    /\ planPc' = "done"
    /\ UNCHANGED <<payload, srvVars, rateVars>>

PlanNext == PlanRequest

SpecPlan == PlanInit /\ [][PlanNext]_vars

----------------------------------------------------------------------------
(* Helpers of the planning properties *)

RECURSIVE Flatten(_)
Flatten(chunks) == IF chunks = <<>> THEN <<>> ELSE Head(chunks) \o Flatten(Tail(chunks))

RECURSIVE SumSizes(_)
SumSizes(chunk) == IF chunk = <<>> THEN 0 ELSE Head(chunk).Size + SumSizes(Tail(chunk))

IsRegularFile(p) == Repo0[p].kind = "file"

\* The request list with missing paths and directories removed, by position.
ExpectedEntries ==
    LET kept == SelectSeq(payload.Files, IsRegularFile)
    IN  [i \in 1..Len(kept) |-> [Path |-> kept[i], Size |-> Repo0[kept[i]].size]]

\* The budget the request asks for: its max_chunk_size if positive, else 30 MiB.
RequestedBudget ==
    IF payload.MaxChunkSize > 0 THEN payload.MaxChunkSize ELSE 30 * 1024 * 1024

\* C1: the chunks of a planned request, concatenated in order, are the request
\* list with missing paths and directories removed (so every existing
\* non-directory file is in exactly one chunk, in its original relative order),
\* and no chunk is empty.
C1_ChunksPartitionInput ==
    planPc = "done" =>
        /\ Flatten(planChunks) = ExpectedEntries
        /\ \A i \in 1..Len(planChunks) : Len(planChunks[i]) > 0

\* A plan of several chunks, one of them of several files, from a list that
\* had a missing path or a directory dropped.
C1_Witness ==
    /\ planPc = "done"
    /\ Len(planChunks) >= 2
    /\ \E i \in 1..Len(planChunks) : Len(planChunks[i]) >= 2
    /\ Len(Flatten(planChunks)) < Len(payload.Files)

----------------------------------------------------------------------------
(* Properties of the server *)

HandleSet(i) == {inits[i].handles[k] : k \in 1..Len(inits[i].handles)}

\* C3: the handles any two init calls register are disjoint.
C3_HandlesDisjoint ==
    \A i, j \in InitWorkers : i # j => HandleSet(i) \cap HandleSet(j) = {}

\* C4: a GET that resolved its handle and closed the zip writer, and whose
\* client stayed connected, has streamed exactly the archive it built.
C4_ResolvedGetStreamsWholeArchive ==
    \A g \in GetWorkers :
        (gets[g].pc = "done" /\ gets[g].archive.closed /\ ~gets[g].disconnected)
            => gets[g].body = gets[g].archive

\* C5: a GET whose chunkID is not in the registry answers 404 at once and
\* leaves the registry, the scratch directory and the timers as they were.
C5_UnknownHandleNoSideEffects ==
    [][\A g \in GetWorkers :
          (gets[g].pc = "idle" /\ gets'[g].pc # "idle"
              /\ gets'[g].chunkID \notin DOMAIN chunkStore)
          => /\ gets'[g].pc = "done"
             /\ gets'[g].status = 404
             /\ gets'[g].tmpPath = <<>>
             /\ chunkStore' = chunkStore
             /\ tmpDir' = tmpDir
             /\ timers' = timers]_vars

\* A GET answered 404 for a handle an init call had returned (since expired).
C5_Witness ==
    \E g \in GetWorkers :
        gets[g].pc = "done" /\ gets[g].status = 404 /\ gets[g].chunkID \in Issued

\* C6 as claimed: once more than maxAge has passed since a handle was
\* registered, it is not in the registry and no scratch file matches it.
C6_UnresolvableAfterMaxAge ==
    \A i \in InitWorkers :
        (inits[i].pc = "done" /\ now - inits[i].regAt > maxAge)
            => \A h \in HandleSet(i) :
                  /\ h \notin DOMAIN chunkStore
                  /\ \A n \in DOMAIN tmpDir : ~GlobMatch(h, n)

\* C6 amended: a registry sweep run more than maxAge after a handle's
\* timestamp removes the handle and the scratch files matching it at that
\* sweep, and no handle stays registered longer than maxAge plus one tick
\* period.
C6_SweepRemovesExpired ==
    [][/\ \A k \in DOMAIN chunkStore' :
              now' - KeyTimestamp(k).val <= maxAge + tickPeriod
       /\ (janitor.pc = "sweep" /\ janitor'.pc = "walk")
              => \A k \in DOMAIN chunkStore :
                    janitor.now - KeyTimestamp(k).val > maxAge
                        => /\ k \notin DOMAIN chunkStore'
                           /\ \A n \in DOMAIN tmpDir' : ~GlobMatch(k, n)]_vars

\* The janitor has just swept away a handle that was never fetched, more than
\* maxAge after it was registered.
C6_Witness ==
    /\ janitor.pc = "walk"
    /\ \A g \in GetWorkers : gets[g].pc = "idle"
    /\ \E i \in InitWorkers :
          /\ inits[i].pc = "done"
          /\ HandleSet(i) # {}
          /\ janitor.now - inits[i].regAt > maxAge
          /\ HandleSet(i) \cap DOMAIN chunkStore = {}

\* C7: once the reclamation delay has passed since a download ended, its
\* handle is not in the registry and its scratch file does not exist.
C7_GoneAfterReclaimDelay ==
    \A g \in GetWorkers :
        (gets[g].scheduled > 0 /\ now > gets[g].doneAt + delay)
            => /\ gets[g].chunkID \notin DOMAIN chunkStore
               /\ gets[g].tmpPath \notin DOMAIN tmpDir

\* A download that ended whole more than the reclamation delay ago.
C7_Witness ==
    \E g \in GetWorkers :
        /\ gets[g].scheduled > 0
        /\ ~gets[g].disconnected
        /\ gets[g].body = gets[g].archive
        /\ now > gets[g].doneAt + delay
        /\ gets[g].cleanups = 1

\* C8: every GET that built a scratch archive and ended its stream step has
\* had its cleanup scheduled exactly once.
C8_CleanupScheduledOnce ==
    \A g \in GetWorkers :
        (gets[g].pc = "done" /\ gets[g].archive.closed) => gets[g].scheduled = 1

\* C10: for a pending reclaimer timer and a janitor tick at a time when the
\* timer's handle is expired, running the two in either order reports no
\* failure and gives the same registry, with the handle absent and every
\* entry the tick does not expire unchanged, the timer's scratch file absent,
\* and the same scratch files of other handles; and no removal that has run
\* so far failed.
C10_RemovalOrderIndependent ==
    /\ ~failed
    /\ \A t \in timers : \A jn \in {now, t.at} :
          (KeyTimestamp(t.chunkID).ok /\ jn - KeyTimestamp(t.chunkID).val > maxAge)
          => LET r == reclaim(chunkStore, tmpDir, t.path, t.chunkID)
                 rj == janitorTick(r.store, r.dir, jn)
                 j == janitorTick(chunkStore, tmpDir, jn)
                 jr == reclaim(j.store, j.dir, t.path, t.chunkID)
             IN  /\ r.ok /\ rj.ok /\ j.ok /\ jr.ok
                 /\ rj.store = jr.store
                 /\ \A n \in DOMAIN tmpDir :
                       ~GlobMatch(t.chunkID, n) => (n \in DOMAIN rj.dir <=> n \in DOMAIN jr.dir)
                 /\ t.path \notin DOMAIN rj.dir
                 /\ t.chunkID \notin DOMAIN jr.store
                 /\ t.path \notin DOMAIN jr.dir
                 /\ \A k \in DOMAIN chunkStore :
                       ~(jn - KeyTimestamp(k).val > maxAge)
                           => k \in DOMAIN jr.store /\ jr.store[k] = chunkStore[k]

\* A reclaimer callback has run after the janitor had already removed both
\* its registry entry and its scratch file, while another entry is registered.
C10_Witness ==
    /\ ~failed
    /\ DOMAIN chunkStore # {}
    /\ \E g \in GetWorkers :
          gets[g].cleanups = 1 /\ gets[g].fileWasGone /\ gets[g].entryWasGone

----------------------------------------------------------------------------
(* Locking *)

\* C11: the registry lock is never held while a filesystem call is made: the
\* janitor's step between Lock and Unlock makes none.  (The init handler, the
\* GET handler and the reclaimer's callback hold the lock for map operations
\* only.)
C11_NoFileIOUnderLock ==
    [][(chunkStoreMu = "janitor" /\ janitor.pc = "sweep" /\ janitor'.pc = "walk")
          => sweepIO(chunkStore, tmpDir, janitor.now) = 0]_vars

----------------------------------------------------------------------------
(* The archive *)

----------------------------------------------------------------------------
(* Registration *)

\* The keys an init call with this chunkID and these chunks registers.
RegisteredKeys(chunkID, chunks) == {ChunkKey(chunkID, k) : k \in 0..(Len(chunks) - 1)}

\* C13: an init call that plans n chunks adds exactly n registry entries
\* "<ts>-0" .. "<ts>-(n-1)", entry i holding the paths of chunk i in order,
\* answers those n handles in chunk order with each chunk's length and size
\* sum, and leaves every other entry as it was; with no chunk it answers no
\* handle and leaves the registry as it was.
C13_RegisterAddsExactlyItsChunks ==
    [][\A i \in InitWorkers :
          (inits[i].pc = "stamped" /\ inits'[i].pc = "done")
          => LET chunks == inits[i].chunks
                 n == Len(chunks)
                 ts == inits[i].chunkID
                 keys == RegisteredKeys(ts, chunks)
             IN  /\ ParseInt(ts).ok
                 /\ DOMAIN chunkStore' \ DOMAIN chunkStore = keys
                 /\ Cardinality(DOMAIN chunkStore') = Cardinality(DOMAIN chunkStore) + n
                 /\ \A k \in 1..n :
                       /\ Len(chunkStore'[ChunkKey(ts, k - 1)]) = Len(chunks[k])
                       /\ \A x \in 1..Len(chunks[k]) :
                             chunkStore'[ChunkKey(ts, k - 1)][x] = chunks[k][x].Path
                 /\ Len(inits'[i].result) = n
                 /\ \A k \in 1..n :
                       /\ inits'[i].result[k].URL = ChunkKey(ts, k - 1)
                       /\ inits'[i].result[k].FileCount = Len(chunks[k])
                       /\ inits'[i].result[k].TotalSizeUncompressed = SumSizes(chunks[k])
                 /\ \A key \in DOMAIN chunkStore :
                       key \in DOMAIN chunkStore' /\ chunkStore'[key] = chunkStore[key]
                 /\ n = 0 => (inits'[i].result = <<>> /\ chunkStore' = chunkStore)]_vars

----------------------------------------------------------------------------
(* The limiter's frame *)

\* C14: a planning request the limiter rejects runs no planner, registers no
\* handle, and leaves every identity's bucket with the tokens it had; a GET
\* never touches a limiter and admits nothing.
C14_RejectedHasNoSideEffects ==
    [][rateNow' = rateNow =>
          /\ (lastReply'.route = "init" /\ lastReply'.status = 429)
                => /\ chunkStore' = chunkStore
                   /\ admitted' = admitted
                   /\ planVars' = planVars
                   /\ inits' = inits
                   /\ DOMAIN visitors' = DOMAIN visitors
                   /\ \A ip \in DOMAIN visitors :
                         advance(visitors'[ip], rateNow) = advance(visitors[ip], rateNow)
          /\ lastReply'.route = "get"
                => /\ visitors' = visitors
                   /\ admitted' = admitted]_vars

\* An identity has just been rejected after ten admitted requests, while
\* handles are registered and another identity has a bucket of its own.
C14_Witness ==
    /\ lastReply.route = "init"
    /\ lastReply.status = 429
    /\ admitted[lastReply.ip][rateNow] = 10
    /\ DOMAIN chunkStore # {}
    /\ \E ip \in DOMAIN visitors : ip # lastReply.ip /\ advance(visitors[ip], rateNow) > 0

----------------------------------------------------------------------------
(* Greedy packing *)

\* C15: a chunk is closed only when the next file would not fit: the total of
\* every chunk but the last plus the size of the next chunk's first file is
\* above the budget; and a.txt (10), b.txt (25), c.txt (2) with budget 30 are
\* planned as [[a.txt], [b.txt, c.txt]].
C15_GreedyPacking ==
    planPc = "done" =>
        /\ \A i \in 1..(Len(planChunks) - 1) :
              SumSizes(planChunks[i]) + planChunks[i + 1][1].Size > RequestedBudget
        /\ (payload = [Files |-> <<"a.txt", "b.txt", "c.txt">>, MaxChunkSize |-> 30])
              => planChunks = << <<[Path |-> "a.txt", Size |-> 10]>>,
                                 <<[Path |-> "b.txt", Size |-> 25],
                                   [Path |-> "c.txt", Size |-> 2]>> >>

\* A plan of at least three chunks in which a chunk was filled to its budget
\* exactly before it was closed.
C15_Witness ==
    /\ planPc = "done"
    /\ Len(planChunks) >= 3
    /\ \E i \in 1..(Len(planChunks) - 1) :
          Len(planChunks[i]) >= 2 /\ SumSizes(planChunks[i]) = RequestedBudget

----------------------------------------------------------------------------
(* Expiry *)

\* C16: with the janitor ticking every tick period, every registered handle,
\* fetched or not, is removed by the first tick at which it is older than
\* maxAge: no handle that was older than maxAge at the latest tick is still
\* registered once that tick's sweep is done, no handle is registered longer
\* than maxAge plus one tick period, and once every init call was made longer
\* ago than that the registry is empty.
C16_RemovedByFirstTickPastMaxAge ==
    /\ \A k \in DOMAIN chunkStore :
          /\ KeyTimestamp(k).ok
          /\ now - KeyTimestamp(k).val <= maxAge + tickPeriod
          /\ janitor.pc # "sweep" => ~(janitor.now - KeyTimestamp(k).val > maxAge)
    /\ (\A i \in InitWorkers :
            \/ inits[i].pc = "idle"
            \/ inits[i].pc = "done" /\ now - inits[i].regAt > maxAge + tickPeriod)
          => chunkStore = EmptyMap

\* Two init calls have registered handles, none was ever fetched, and the
\* sweep of the tick at which the later ones reached maxAge plus one tick
\* period has left the registry empty.
C16_Witness ==
    /\ janitor.pc = "walk"
    /\ chunkStore = EmptyMap
    /\ \A g \in GetWorkers : gets[g].pc = "idle"
    /\ \A i \in InitWorkers : inits[i].pc = "done" /\ HandleSet(i) # {}
    /\ \E i, j \in InitWorkers :
          /\ inits[i].regAt < inits[j].regAt
          /\ janitor.now - inits[j].regAt = maxAge + tickPeriod

----------------------------------------------------------------------------
(* The lock's discipline *)

\* C17: every access to the registry map is made by the holder of the lock,
\* and the lock has one holder at most: the janitor holds it exactly while it
\* sweeps the registry, and a register, a resolve or a reclaimer's delete
\* happens, and the map changes, only in a step that finds the lock free and
\* takes it, or in the janitor's sweep.
C17_RegistryAccessUnderLock ==
    [][/\ chunkStoreMu \in {"free", "janitor"}
       /\ chunkStoreMu = "janitor" <=> janitor.pc = "sweep"
       /\ LET sweeping == chunkStoreMu = "janitor" /\ janitor.pc = "sweep"
                              /\ janitor'.pc = "walk"
              registers == \E i \in InitWorkers :
                              inits[i].pc = "stamped" /\ inits'[i].pc = "done"
              resolves == \E g \in GetWorkers : gets[g].pc = "idle" /\ gets'[g].pc # "idle"
              deletes == \E t \in timers : t.stage = "removed" /\ t \notin timers'
          IN  /\ (registers \/ resolves \/ deletes) => chunkStoreMu = "free"
              /\ chunkStore' # chunkStore
                    => \/ sweeping
                       \/ chunkStoreMu = "free" /\ (registers \/ deletes)]_vars

\* The janitor holds the lock while an init call that has read the clock and
\* a reclaimer that has removed its file both wait for it.
C17_Witness ==
    /\ chunkStoreMu = "janitor"
    /\ \E i \in InitWorkers : inits[i].pc = "stamped"
    /\ \E t \in timers : t.stage = "removed"

\* C16, eventually: under a fair scheduler the registry ends up holding, for
\* good, no handle but those stamped within maxAge plus one tick period of the
\* clock's last value.
C16_Live ==
    /\ []C16_RemovedByFirstTickPastMaxAge
    /\ <>[](\A k \in DOMAIN chunkStore :
                KeyTimestamp(k).val >= MaxTime - maxAge - tickPeriod)

----------------------------------------------------------------------------
(* Scratch files *)

\* C18: with the janitor ticking every tick period, no scratch archive is
\* left behind, whoever made it and whether or not a reclaimer was scheduled
\* for it or its handle is still registered: every file of the scratch
\* directory is a .zip written at most maxAge plus one tick period ago, none
\* that was older than maxAge at the latest tick is left once that tick's walk
\* is done, and once every GET ended longer ago than maxAge plus one tick
\* period the directory is empty.
C18_NoScratchFileLeaks ==
    /\ \A n \in DOMAIN tmpDir :
          /\ IsZip(n)
          /\ now - tmpDir[n].mtime <= maxAge + tickPeriod
          /\ janitor.pc = "idle" => ~(janitor.now - tmpDir[n].mtime > maxAge)
    /\ \A g \in GetWorkers :
          (gets[g].pc = "done" /\ now - gets[g].doneAt > maxAge + tickPeriod)
              => gets[g].tmpPath \notin DOMAIN tmpDir
    /\ (\A g \in GetWorkers :
            \/ gets[g].pc = "idle"
            \/ gets[g].pc = "done" /\ now - gets[g].doneAt > maxAge + tickPeriod)
          => tmpDir = EmptyMap

\* Two GETs of one handle have each built a scratch file after the handle
\* was swept from the registry; the first download is still running, so no
\* reclaimer is scheduled for its file, which is older than maxAge and still
\* there as the janitor starts the walk that removes it.
C18_Witness ==
    /\ janitor.pc = "walk"
    /\ \E g1, g2 \in GetWorkers :
          /\ g1 # g2
          /\ gets[g1].chunkID = gets[g2].chunkID
          /\ gets[g1].chunkID \notin DOMAIN chunkStore
          /\ gets[g1].pc = "streaming"
          /\ gets[g1].tmpPath \in DOMAIN tmpDir
          /\ janitor.now - tmpDir[gets[g1].tmpPath].mtime > maxAge
          /\ gets[g2].tmpPath # <<>>
          /\ gets[g2].tmpPath # gets[g1].tmpPath

----------------------------------------------------------------------------
(* Minimum lifetime *)

\* C19: no registry entry is removed before more than maxAge has passed since
\* it was registered, and until then it maps to the path list it was
\* registered with: a step that ends no later than maxAge after an entry's
\* timestamp leaves the entry in the registry, unchanged.
C19_EntryStableForMaxAge ==
    [][\A k \in DOMAIN chunkStore :
          (KeyTimestamp(k).ok /\ now' - KeyTimestamp(k).val <= maxAge)
              => /\ k \in DOMAIN chunkStore'
                 /\ chunkStore'[k] = chunkStore[k]]_vars

----------------------------------------------------------------------------
(* The form of the registry's keys *)

\* C20: in every reachable state every registry key is "<ts>-<i>", ts the
\* decimal form of a clock reading that is not later than the current time and
\* i the decimal form of a chunk index that is not negative; so the key has a
\* "-", the prefix before it parses, and the janitor's skip of unparsable
\* keys is never taken.
C20_KeysAreTimestampDashIndex ==
    \A k \in DOMAIN chunkStore :
        LET idx == Index(k, "-")
            ts == ParseInt(SubSeq(k, 1, idx))
            i == ParseInt(SubSeq(k, idx + 2, Len(k)))
        IN  /\ idx >= 1
            /\ ts.ok /\ 0 <= ts.val /\ ts.val <= now
            /\ i.ok /\ i.val >= 0
            /\ k = ChunkKey(FormatInt(ts.val), i.val)
            /\ KeyTimestamp(k) = ts

\* The registry holds keys of two init calls made at different times, one of
\* them with a two-digit timestamp, and a second chunk's key among them.
C20_Witness ==
    /\ \E k \in DOMAIN chunkStore : KeyTimestamp(k).val >= 10
    /\ \E k \in DOMAIN chunkStore : KeyTimestamp(k).val < 10
    /\ \E k \in DOMAIN chunkStore : ParseInt(SubSeq(k, Index(k, "-") + 2, Len(k))).val = 1

====
